---- MODULE Spec2Model ----
(***************************************************************************)
(* Model of FFrameData (include/FrameData.h): a frame arena that stores    *)
(* values of trivially destructible types in fixed-size chunks and keeps,  *)
(* per type fingerprint, the addresses of the stored values.               *)
(*                                                                         *)
(* Two container objects, X and Y, share one heap.  An address is a pair   *)
(* (block, offset); the heap content is kept byte by byte so that a value  *)
(* read back through Data<T>() is what the bytes at its address hold.      *)
(***************************************************************************)
EXTENDS Integers, Sequences, FiniteSets, TLC

\* ------------------------------------------------------------------ bounds
MaxBlocks == 3      \* blocks the heap can hold at once
MaxPush   == 2      \* values recorded at once, over all containers
MaxSlack  == 2      \* Clear(k) is called with k in 0..MaxSlack
ChunkBytes == 6     \* the InChunkSize every container is constructed with

\* ------------------------------------------------------- program constants
ChunkAlignment == 64
\* Low 12 bits of the 64-bit FNV-1a offset basis and prime; the low 12 bits
\* of the 64-bit hash depend on these only.
HashMod     == 4096
OffsetBasis == 805      \* 0xCBF29CE484222325 mod 2^12 = 0x325
Prime       == 435      \* 0x100000001B3 mod 2^12 = 0x1B3

Containers == {"X", "Y"}
Values     == {1, 2}   \* the values pushed; 0 is read where no value is stored
Null       == 0         \* a failed AlignedAlloc; as a block id, memory that is no block
BlockIds   == 1..MaxBlocks
Garbage    == 0         \* what a read yields where no whole value is stored

\* The types pushed: the bytes of the type's name in __FUNCSIG__, sizeof, alignof.
\* TypeA is a uint8_t, TypeD a struct of two uint16_t.
TypeA == [name |-> <<65>>, size |-> 1, align |-> 1]
TypeD == [name |-> <<68>>, size |-> 4, align |-> 2]
Types == {TypeA, TypeD}
Threads == {1, 2}
\* A type larger than a chunk, such as struct { uint8_t b[ChunkBytes + 2]; }.
TypeBig == [name |-> <<66>>, size |-> ChunkBytes + 2, align |-> 1]

VARIABLES
    state,      \* state[c]: "none" (not constructed yet), "live" or "dead" (destroyed)
    Chunks,     \* Chunks[c]: sequence of block ids
    TypeMap,    \* TypeMap[c]: fingerprint -> sequence of addresses
    ChunkSize,  \* ChunkSize[c]
    HeadPos,    \* HeadPos[c]: Head, the next free offset in the active chunk
    ChunkHead,  \* ChunkHead[c]: index (from 0) of the active chunk
    heap,       \* ids of the blocks allocated and not freed
    mem,        \* mem[b][o]: the byte at offset o of block b
    hist,       \* history: hist[c] = the <<type, value>> pushed since construction or Clear
    slack,      \* history: slack[c] = k of the Clear(k) that began the period, -1 if none
                \*          (a move-constructed container takes over the period of
                \*          its source: hist, slack and found go with the state)
    found,      \* history: found[c] = what the Clear found that was the last
                \*          operation on c (whether values were recorded, whether
                \*          the pool was smaller or larger than k); NoClear otherwise
    movedFrom,  \* history: movedFrom[c] = c was moved from and not cleared since
    ub,         \* history: a read outside the bounds of Chunks, or a store
                \*          past the end of a block, has happened
    thr         \* thr[t]: the Push that thread t is executing on X: the
                \*         statement it is at and its local variables

vars == <<state, Chunks, TypeMap, ChunkSize, HeadPos, ChunkHead, heap, mem,
          hist, slack, found, movedFrom, ub, thr>>

\* ------------------------------------------------------------ pure helpers
Range(s) == {s[i] : i \in 1..Len(s)}

Min(S) == CHOOSE x \in S : \A y \in S : x <= y

RECURSIVE Xor(_, _)
Xor(a, b) ==
    IF a = 0 THEN b
    ELSE IF b = 0 THEN a
    ELSE (((a % 2) + (b % 2)) % 2) + 2 * Xor(a \div 2, b \div 2)

\* Align as it would be without the rounding: the value is returned as it is.
AlignNoRounding(Val, Alignment) == Val

\* Details::Align: (Val + Alignment - 1) & ~(Alignment - 1).  For Alignment a
\* power of two the mask clears the bits below Alignment, which subtracts
\* the remainder modulo Alignment.
Align(Val, Alignment) ==
    LET s == Val + Alignment - 1
    IN  s - (s % Alignment)

\* Details::ComputeHash: FNV-1a over the bytes of the type string.
RECURSIVE HashFrom(_, _, _)
HashFrom(Hash, TypeStr, Index) ==
    IF Index > Len(TypeStr) THEN Hash
    ELSE HashFrom((Xor(Hash, TypeStr[Index]) * Prime) % HashMod, TypeStr, Index + 1)

ComputeHash(TypeStr) == HashFrom(OffsetBasis, TypeStr, 1)

\* TTypeIndex as it would be if the hash did not read the type string.
TTypeIndexOfNoString(T) == ComputeHash(<<>>)

\* TTypeIndex<T>::Value
TTypeIndex(T) == ComputeHash(T.name)

\* FFrameData::Supports<T>() and the alignment static_assert of Push
Supports(T) == T.align <= ChunkAlignment

NoClear == [vals |-> FALSE, pool |-> "none"]

\* A thread that executes no Push.
Idle == [pc |-> "idle", T |-> TypeA, v |-> 0, empty |-> FALSE, Offset |-> 0,
         Ptr |-> [blk |-> Null, off |-> 0], hit |-> FALSE, stale |-> FALSE]

EmptyMap == [k \in {} |-> <<>>]
EmptyBlock == [o \in 0..(ChunkBytes - 1) |-> [val |-> 0, idx |-> 0]]

\* Memory::AlignedAlloc: a block that is not allocated, Null if there is none.
AlignedAlloc(live) ==
    IF BlockIds \ live = {} THEN Null ELSE Min(BlockIds \ live)

\* FFrameData::PushChunk on the pair (chunks, allocated blocks)
PushChunk(p) ==
    LET b == AlignedAlloc(p.live)
    IN  [chunks |-> Append(p.chunks, b), live |-> p.live \cup ({b} \ {Null})]

\* Allocate as it would be if a roll-over started again at offset 0 of the
\* active chunk.
AllocateReusingChunk(chunks, head, chunkHead, chunkSize, live, InSize, InAlign) ==
    LET p0     == [chunks |-> chunks, live |-> live]
        p1     == IF Len(chunks) = 0 THEN PushChunk(p0) ELSE p0
        Offset == Align(head, InAlign)
        full   == Offset + InSize > chunkSize
        off    == IF full THEN 0 ELSE Offset
    IN  [chunks |-> p1.chunks, live |-> p1.live, ChunkHead |-> chunkHead,
         Offset |-> off, HeadPos |-> off + InSize]

\* Allocate as it would be if Head were kept from passing the end of a chunk.
AllocateClampingHead(chunks, head, chunkHead, chunkSize, live, InSize, InAlign) ==
    LET p0     == [chunks |-> chunks, live |-> live]
        p1     == IF Len(chunks) = 0 THEN PushChunk(p0) ELSE p0
        Offset == Align(head, InAlign)
        full   == Offset + InSize > chunkSize
        ch     == IF full THEN chunkHead + 1 ELSE chunkHead
        p2     == IF full /\ ch >= Len(p1.chunks) THEN PushChunk(p1) ELSE p1
        off    == IF full THEN 0 ELSE Offset
    IN  [chunks |-> p2.chunks, live |-> p2.live, ChunkHead |-> ch,
         Offset |-> off,
         HeadPos |-> IF off + InSize > chunkSize THEN chunkSize ELSE off + InSize]

\* Allocate as it would be if the roll-over pushed a chunk only when the new
\* ChunkHead were greater than Chunks.size().
AllocateLatePush(chunks, head, chunkHead, chunkSize, live, InSize, InAlign) ==
    LET p0     == [chunks |-> chunks, live |-> live]
        p1     == IF Len(chunks) = 0 THEN PushChunk(p0) ELSE p0
        Offset == Align(head, InAlign)
        full   == Offset + InSize > chunkSize
        ch     == IF full THEN chunkHead + 1 ELSE chunkHead
        p2     == IF full /\ ch > Len(p1.chunks) THEN PushChunk(p1) ELSE p1
        off    == IF full THEN 0 ELSE Offset
    IN  [chunks |-> p2.chunks, live |-> p2.live, ChunkHead |-> ch,
         Offset |-> off, HeadPos |-> off + InSize]

\* Allocate as it would be if a roll-over always pushed a chunk, without
\* looking for a chunk after the active one.
AllocateAlwaysPushing(chunks, head, chunkHead, chunkSize, live, InSize, InAlign) ==
    LET p0     == [chunks |-> chunks, live |-> live]
        p1     == IF Len(chunks) = 0 THEN PushChunk(p0) ELSE p0
        Offset == Align(head, InAlign)
        full   == Offset + InSize > chunkSize
        ch     == IF full THEN chunkHead + 1 ELSE chunkHead
        p2     == IF full THEN PushChunk(p1) ELSE p1
        off    == IF full THEN 0 ELSE Offset
    IN  [chunks |-> p2.chunks, live |-> p2.live, ChunkHead |-> ch,
         Offset |-> off, HeadPos |-> off + InSize]

\* FFrameData::Allocate, up to the read of Chunks[ChunkHead].
Allocate(chunks, head, chunkHead, chunkSize, live, InSize, InAlign) ==
    LET p0     == [chunks |-> chunks, live |-> live]
        p1     == IF Len(chunks) = 0 THEN PushChunk(p0) ELSE p0
        Offset == Align(head, InAlign)
        full   == Offset + InSize > chunkSize
        ch     == IF full THEN chunkHead + 1 ELSE chunkHead
        p2     == IF full /\ ch >= Len(p1.chunks) THEN PushChunk(p1) ELSE p1
        off    == IF full THEN 0 ELSE Offset
    IN  [chunks |-> p2.chunks, live |-> p2.live, ChunkHead |-> ch,
         Offset |-> off, HeadPos |-> off + InSize]

\* The value of Chunks[ChunkHead]: the element when the index is inside the
\* vector; otherwise the read is out of bounds and yields any pointer, to a
\* block some pool holds or to memory no pool owns.
ChunkAt(chunks, chunkHead, live) ==
    IF chunkHead < Len(chunks) THEN {chunks[chunkHead + 1]}
    ELSE live \cup {Null}

\* new (Ptr) T{InValue}: the bytes of the value, written from Ptr on.
Store(m, Ptr, T, v) ==
    [b \in DOMAIN m |->
        IF b # Ptr.blk THEN m[b]
        ELSE [o \in DOMAIN m[b] |->
                IF o >= Ptr.off /\ o < Ptr.off + T.size
                THEN [val |-> v, idx |-> o - Ptr.off]
                ELSE m[b][o]]]

\* The bytes of a value that do not fit in the block at Ptr are written past
\* its end, into whatever memory lies there (Nb); none when the value fits.
Spill(m, Ptr, T, v, Nb) ==
    LET k == Ptr.off + T.size - ChunkBytes
    IN  IF k <= 0 THEN m
        ELSE [m EXCEPT ![Nb] =
                [o \in DOMAIN @ |->
                    IF o < k THEN [val |-> v, idx |-> ChunkBytes - Ptr.off + o]
                    ELSE @[o]]]

\* What lies after the block b: nothing that matters when the value fits;
\* otherwise the bytes after b may belong to any other block or to memory no
\* pool owns.
After(b, Ptr, T, live) ==
    IF Ptr.off + T.size <= ChunkBytes THEN {Null} ELSE (live \cup {Null}) \ {b}

\* TIterator<T>::operator*: the bytes at the address, read as a T.
Deref(m, Ptr, T) ==
    IF /\ Ptr.blk \in DOMAIN m
       /\ \A i \in 0..(T.size - 1) :
             /\ Ptr.off + i \in DOMAIN m[Ptr.blk]
             /\ m[Ptr.blk][Ptr.off + i].idx = i
             /\ m[Ptr.blk][Ptr.off + i].val = m[Ptr.blk][Ptr.off].val
    THEN m[Ptr.blk][Ptr.off].val
    ELSE Garbage

\* The registry after Push records Ptr under Index.
Record(map, Index, Ptr) ==
    IF Index \in DOMAIN map
    THEN [map EXCEPT ![Index] = Append(@, Ptr)]
    ELSE [k \in DOMAIN map \cup {Index} |-> IF k = Index THEN <<Ptr>> ELSE map[k]]

\* FFrameData::Data<T>(): the addresses of the view
View(map, T) ==
    IF TTypeIndex(T) \in DOMAIN map THEN map[TTypeIndex(T)] ELSE <<>>

\* FFrameData::Data<T>() iterated: the values the view yields, for the
\* registry map and the memory m
Yield(map, m, T) ==
    LET v == View(map, T)
    IN  [i \in 1..Len(v) |-> Deref(m, v[i], T)]

Data(c, T) == Yield(TypeMap[c], mem, T)

\* Clear as it would be without TypeMap.clear().
ClearedMapKeepingEntries(map) == map

\* TypeMap.clear()
ClearedMap(map) == EmptyMap

\* The chunks Clear(InSlack) keeps, and the blocks then allocated.
RECURSIVE Grow(_, _)
Grow(p, InSlack) ==
    IF Len(p.chunks) >= InSlack THEN p ELSE Grow(PushChunk(p), InSlack)

\* Clear as it would be if it freed the first chunks in excess and kept the
\* last InSlack ones.
ClearChunksKeepingTail(chunks, live, InSlack) ==
    IF InSlack < Len(chunks)
    THEN [chunks |-> SubSeq(chunks, Len(chunks) - InSlack + 1, Len(chunks)),
          live   |-> live \ {chunks[i] : i \in 1..(Len(chunks) - InSlack)}]
    ELSE Grow([chunks |-> chunks, live |-> live], InSlack)

\* Clear as it would be if it only shrank the pool and never allocated.
ClearChunksShrinkOnly(chunks, live, InSlack) ==
    IF InSlack < Len(chunks)
    THEN [chunks |-> SubSeq(chunks, 1, InSlack),
          live   |-> live \ {chunks[i] : i \in (InSlack + 1)..Len(chunks)}]
    ELSE [chunks |-> chunks, live |-> live]

\* The blocks beyond the first InSlack are released with std::free, the
\* deallocator of aligned_alloc.
ClearChunks(chunks, live, InSlack) ==
    IF InSlack < Len(chunks)
    THEN [chunks |-> SubSeq(chunks, 1, InSlack),
          live   |-> live \ {chunks[i] : i \in (InSlack + 1)..Len(chunks)}]
    ELSE Grow([chunks |-> chunks, live |-> live], InSlack)

\* Clear ends the life of every value in the container's chunks: the bytes of
\* the chunks freed, kept and newly allocated hold no value any more.
Wipe(m, blocks) == [b \in DOMAIN m |-> IF b \in blocks THEN EmptyBlock ELSE m[b]]

TotalPushed ==
    LET n(c) == Len(hist[c]) IN n("X") + n("Y")

\* ------------------------------------------------------------------- Init
\* X has been constructed by FFrameData(uint32_t InChunkSize); Y is storage
\* for a container still to be move-constructed.
Init ==
    /\ state     = [c \in Containers |-> IF c = "X" THEN "live" ELSE "none"]
    /\ Chunks    = [c \in Containers |-> <<>>]
    /\ TypeMap   = [c \in Containers |-> EmptyMap]
    /\ ChunkSize = [c \in Containers |-> IF c = "X" THEN ChunkBytes ELSE 0]
    /\ HeadPos   = [c \in Containers |-> 0]
    /\ ChunkHead = [c \in Containers |-> 0]
    /\ heap      = {}
    /\ mem       = [b \in {Null} \cup BlockIds |-> EmptyBlock]
    /\ hist      = [c \in Containers |-> <<>>]
    /\ slack     = [c \in Containers |-> -1]
    /\ found     = [c \in Containers |-> NoClear]
    /\ movedFrom = [c \in Containers |-> FALSE]
    /\ ub        = FALSE
    /\ thr       = [t \in Threads |-> Idle]

\* ---------------------------------------------------------------- actions
\* After a read outside the bounds of Chunks, or a store past the end of a
\* block, the behaviour of the program is undefined: the model follows it up
\* to the store through the pointer, and no further (every operation
\* requires ~ub).
\* Push<T>(InValue)
Push(c, T, v) ==
    /\ ~ub
    /\ state[c] = "live"
    /\ Supports(T)
    /\ TotalPushed < MaxPush
    /\ LET a == Allocate(Chunks[c], HeadPos[c], ChunkHead[c], ChunkSize[c], heap,
                         T.size, T.align)
       IN  /\ Null \notin Range(a.chunks)
           /\ \E b \in ChunkAt(a.chunks, a.ChunkHead, a.live) :
                LET Ptr == [blk |-> b, off |-> a.Offset]
                IN  /\ \E n \in After(b, Ptr, T, a.live) :
                          mem' = Spill(Store(mem, Ptr, T, v), Ptr, T, v, n)
                    /\ TypeMap' = [TypeMap EXCEPT ![c] = Record(@, TTypeIndex(T), Ptr)]
           /\ ub'        = (a.ChunkHead >= Len(a.chunks) \/ a.HeadPos > ChunkBytes)
           /\ Chunks'    = [Chunks EXCEPT ![c] = a.chunks]
           /\ heap'      = a.live
           /\ HeadPos'   = [HeadPos EXCEPT ![c] = a.HeadPos]
           /\ ChunkHead' = [ChunkHead EXCEPT ![c] = a.ChunkHead]
    /\ hist'  = [hist EXCEPT ![c] = Append(@, <<T, v>>)]
    /\ found' = [found EXCEPT ![c] = NoClear]
    /\ UNCHANGED <<state, ChunkSize, slack, movedFrom, thr>>

\* Data<T>() as it would be if it looked the type up with TypeMap[Index],
\* which inserts an empty entry for an absent key.
DataCallInserting(c, T) ==
    /\ ~ub
    /\ state[c] = "live"
    /\ TypeMap' = [TypeMap EXCEPT ![c] =
                      IF TTypeIndex(T) \in DOMAIN @ THEN @
                      ELSE [k \in DOMAIN @ \cup {TTypeIndex(T)} |->
                               IF k = TTypeIndex(T) THEN <<>> ELSE @[k]]]
    /\ UNCHANGED <<state, Chunks, ChunkSize, HeadPos, ChunkHead, heap, mem,
                   hist, slack, found, movedFrom, ub, thr>>

\* A call of Data<T>(): a const member that looks the type up with
\* TypeMap.find and returns a view; what the view yields is Data(c, T).
DataCall(c, T) ==
    /\ ~ub
    /\ state[c] = "live"
    /\ UNCHANGED vars

\* The state Clear(InSlack) leaves a container's fields and the heap in.
ClearFields(c, InSlack) ==
    LET r == ClearChunks(Chunks[c], heap, InSlack)
    IN  /\ Null \notin Range(r.chunks)
        /\ HeadPos'   = [HeadPos EXCEPT ![c] = 0]
        /\ ChunkHead' = [ChunkHead EXCEPT ![c] = 0]
        /\ TypeMap'   = [TypeMap EXCEPT ![c] = ClearedMap(@)]
        /\ Chunks'    = [Chunks EXCEPT ![c] = r.chunks]
        /\ heap'      = r.live
        /\ mem'       = Wipe(mem, Range(Chunks[c]) \cup Range(r.chunks))

\* Clear(InSlack)
Clear(c, InSlack) ==
    /\ ~ub
    /\ state[c] = "live"
    /\ ClearFields(c, InSlack)
    /\ hist'      = [hist EXCEPT ![c] = <<>>]
    /\ slack'     = [slack EXCEPT ![c] = InSlack]
    /\ found'     = [found EXCEPT ![c] =
                        [vals |-> hist[c] # <<>>,
                         pool |-> IF Len(Chunks[c]) > InSlack THEN "larger"
                                  ELSE IF Len(Chunks[c]) < InSlack THEN "smaller"
                                  ELSE "equal"]]
    /\ movedFrom' = [movedFrom EXCEPT ![c] = FALSE]
    /\ UNCHANGED <<state, ChunkSize, ub, thr>>

\* The move constructor as it would be if it copied Chunks and left InOther
\* its pool.
MoveConstructCopyingChunks(c, InOther) ==
    /\ ~ub
    /\ c # InOther
    /\ state[c] = "none"
    /\ state[InOther] = "live"
    /\ state'     = [state EXCEPT ![c] = "live"]
    /\ Chunks'    = [Chunks EXCEPT ![c] = Chunks[InOther]]
    /\ TypeMap'   = [TypeMap EXCEPT ![c] = TypeMap[InOther], ![InOther] = EmptyMap]
    /\ HeadPos'   = [HeadPos EXCEPT ![c] = HeadPos[InOther]]
    /\ ChunkHead' = [ChunkHead EXCEPT ![c] = ChunkHead[InOther]]
    /\ ChunkSize' = [ChunkSize EXCEPT ![c] = ChunkSize[InOther]]
    /\ hist'      = [hist EXCEPT ![c] = hist[InOther], ![InOther] = <<>>]
    /\ slack'     = [slack EXCEPT ![c] = slack[InOther], ![InOther] = -1]
    /\ found'     = [found EXCEPT ![c] = found[InOther], ![InOther] = NoClear]
    /\ movedFrom' = [movedFrom EXCEPT ![c] = FALSE, ![InOther] = TRUE]
    /\ UNCHANGED <<heap, mem, ub, thr>>

\* The move constructor as it would be if ChunkHead were left at its default.
MoveConstructDefaultChunkHead(c, InOther) ==
    /\ ~ub
    /\ c # InOther
    /\ state[c] = "none"
    /\ state[InOther] = "live"
    /\ state'     = [state EXCEPT ![c] = "live"]
    /\ Chunks'    = [Chunks EXCEPT ![c] = Chunks[InOther], ![InOther] = <<>>]
    /\ TypeMap'   = [TypeMap EXCEPT ![c] = TypeMap[InOther], ![InOther] = EmptyMap]
    /\ HeadPos'   = [HeadPos EXCEPT ![c] = HeadPos[InOther]]
    /\ ChunkHead' = [ChunkHead EXCEPT ![c] = 0]
    /\ ChunkSize' = [ChunkSize EXCEPT ![c] = ChunkSize[InOther]]
    /\ hist'      = [hist EXCEPT ![c] = hist[InOther], ![InOther] = <<>>]
    /\ slack'     = [slack EXCEPT ![c] = slack[InOther], ![InOther] = -1]
    /\ found'     = [found EXCEPT ![c] = found[InOther], ![InOther] = NoClear]
    /\ movedFrom' = [movedFrom EXCEPT ![c] = FALSE, ![InOther] = TRUE]
    /\ UNCHANGED <<heap, mem, ub, thr>>

\* FFrameData(FFrameData&& InOther): c is constructed from InOther.  The
\* moved-from Chunks and TypeMap are empty; Head and ChunkHead of InOther
\* are only read and keep their values.
MoveConstruct(c, InOther) ==
    /\ ~ub
    /\ c # InOther
    /\ state[c] = "none"
    /\ state[InOther] = "live"
    /\ state'     = [state EXCEPT ![c] = "live"]
    /\ Chunks'    = [Chunks EXCEPT ![c] = Chunks[InOther], ![InOther] = <<>>]
    /\ TypeMap'   = [TypeMap EXCEPT ![c] = TypeMap[InOther], ![InOther] = EmptyMap]
    /\ HeadPos'   = [HeadPos EXCEPT ![c] = HeadPos[InOther]]
    /\ ChunkHead' = [ChunkHead EXCEPT ![c] = ChunkHead[InOther]]
    /\ ChunkSize' = [ChunkSize EXCEPT ![c] = ChunkSize[InOther]]
    /\ hist'      = [hist EXCEPT ![c] = hist[InOther], ![InOther] = <<>>]
    /\ slack'     = [slack EXCEPT ![c] = slack[InOther], ![InOther] = -1]
    /\ found'     = [found EXCEPT ![c] = found[InOther], ![InOther] = NoClear]
    /\ movedFrom' = [movedFrom EXCEPT ![c] = FALSE, ![InOther] = TRUE]
    /\ UNCHANGED <<heap, mem, ub, thr>>

\* ~FFrameData()
Destroy(c) ==
    /\ ~ub
    /\ state[c] = "live"
    /\ ClearFields(c, 0)
    /\ state'     = [state EXCEPT ![c] = "dead"]
    /\ hist'      = [hist EXCEPT ![c] = <<>>]
    /\ slack'     = [slack EXCEPT ![c] = -1]
    /\ found'     = [found EXCEPT ![c] = NoClear]
    /\ movedFrom' = [movedFrom EXCEPT ![c] = FALSE]
    /\ UNCHANGED <<ChunkSize, ub, thr>>

Next ==
    \/ \E c \in Containers, T \in Types, v \in Values : Push(c, T, v)
    \/ \E c \in Containers, T \in Types : DataCall(c, T)
    \/ \E c \in Containers, k \in 0..MaxSlack : Clear(c, k)
    \/ \E c \in Containers, o \in Containers : MoveConstruct(c, o)
    \/ \E c \in Containers : Destroy(c)

Spec == Init /\ [][Next]_vars

\* A program that pushes, on the container it constructed, also values of a
\* type larger than a chunk.
NextOversize ==
    \/ \E c \in Containers, T \in Types \cup {TypeBig}, v \in Values : Push(c, T, v)
    \/ \E c \in Containers, T \in Types \cup {TypeBig} : DataCall(c, T)
    \/ \E c \in Containers, k \in 0..MaxSlack : Clear(c, k)
    \/ \E c \in Containers : Destroy(c)

SpecOversize == Init /\ [][NextOversize]_vars

\* ------------------------------------------- two threads pushing on X
\* Two threads call Push on the container X with no synchronization.  A Push
\* is executed statement by statement; between two statements of one thread
\* the other thread may execute any number of its own.  thr[t].pc names the
\* statement thread t executes next.

\* Thread t calls Push<T>(v).
Begin(t, T, v) ==
    /\ ~ub /\ thr[t].pc = "idle"
    /\ Supports(T)
    /\ thr' = [thr EXCEPT ![t] = [Idle EXCEPT !.pc = "size", !.T = T, !.v = v]]
    /\ UNCHANGED <<state, Chunks, TypeMap, ChunkSize, HeadPos, ChunkHead, heap,
                   mem, hist, slack, found, movedFrom, ub>>

\* Allocate: if (Chunks.size() == 0), the test
ReadSize(t) ==
    /\ ~ub /\ thr[t].pc = "size"
    /\ thr' = [thr EXCEPT ![t].pc = "base", ![t].empty = (Len(Chunks["X"]) = 0)]
    /\ UNCHANGED <<state, Chunks, TypeMap, ChunkSize, HeadPos, ChunkHead, heap,
                   mem, hist, slack, found, movedFrom, ub>>

\* Allocate: PushChunk() for the pool found empty
PushBase(t) ==
    /\ ~ub /\ thr[t].pc = "base"
    /\ LET p == IF thr[t].empty
                THEN PushChunk([chunks |-> Chunks["X"], live |-> heap])
                ELSE [chunks |-> Chunks["X"], live |-> heap]
       IN  /\ Null \notin Range(p.chunks)
           /\ Chunks' = [Chunks EXCEPT !["X"] = p.chunks]
           /\ heap'   = p.live
    /\ thr' = [thr EXCEPT ![t].pc = "align"]
    /\ UNCHANGED <<state, TypeMap, ChunkSize, HeadPos, ChunkHead, mem, hist,
                   slack, found, movedFrom, ub>>

\* The read of Head as it would be if it advanced Head in the same step, as
\* an atomic reservation of the range.
ReadHeadReserving(t) ==
    /\ ~ub /\ thr[t].pc = "align"
    /\ thr' = [thr EXCEPT ![t].pc = "fit",
                          ![t].Offset = Align(HeadPos["X"], thr[t].T.align),
                          ![t].stale = \E u \in Threads \ {t} :
                                           thr[u].pc \in {"fit", "write"}]
    /\ HeadPos' = [HeadPos EXCEPT !["X"] =
                      Align(HeadPos["X"], thr[t].T.align) + thr[t].T.size]
    /\ UNCHANGED <<state, Chunks, TypeMap, ChunkSize, ChunkHead, heap,
                   mem, hist, slack, found, movedFrom, ub>>

\* Allocate: Offset = Align(Head, InAlign).  stale records that the other
\* thread has read Head too and has not written it back yet.
ReadHead(t) ==
    /\ ~ub /\ thr[t].pc = "align"
    /\ thr' = [thr EXCEPT ![t].pc = "fit",
                          ![t].Offset = Align(HeadPos["X"], thr[t].T.align),
                          ![t].stale = \E u \in Threads \ {t} :
                                           thr[u].pc \in {"fit", "write"}]
    /\ UNCHANGED <<state, Chunks, TypeMap, ChunkSize, HeadPos, ChunkHead, heap,
                   mem, hist, slack, found, movedFrom, ub>>

\* Allocate: if (Offset + InSize > ChunkSize) { Head = 0; Offset = 0;
\* if (++ChunkHead >= Chunks.size()) PushChunk(); }
RollOver(t) ==
    /\ ~ub /\ thr[t].pc = "fit"
    /\ IF thr[t].Offset + thr[t].T.size > ChunkSize["X"]
       THEN LET p0 == [chunks |-> Chunks["X"], live |-> heap]
                p  == IF ChunkHead["X"] + 1 >= Len(Chunks["X"])
                      THEN PushChunk(p0) ELSE p0
            IN  /\ Null \notin Range(p.chunks)
                /\ HeadPos'   = [HeadPos EXCEPT !["X"] = 0]
                /\ ChunkHead' = [ChunkHead EXCEPT !["X"] = @ + 1]
                /\ Chunks'    = [Chunks EXCEPT !["X"] = p.chunks]
                /\ heap'      = p.live
                /\ thr' = [thr EXCEPT ![t].pc = "write", ![t].Offset = 0]
       ELSE /\ thr' = [thr EXCEPT ![t].pc = "write"]
            /\ UNCHANGED <<HeadPos, ChunkHead, Chunks, heap>>
    /\ UNCHANGED <<state, TypeMap, ChunkSize, mem, hist, slack, found,
                   movedFrom, ub>>

\* Allocate: Head = Offset + InSize
WriteHead(t) ==
    /\ ~ub /\ thr[t].pc = "write"
    /\ HeadPos' = [HeadPos EXCEPT !["X"] = thr[t].Offset + thr[t].T.size]
    /\ thr' = [thr EXCEPT ![t].pc = "store"]
    /\ UNCHANGED <<state, Chunks, TypeMap, ChunkSize, ChunkHead, heap, mem,
                   hist, slack, found, movedFrom, ub>>

\* Allocate: return Chunks[ChunkHead] + Offset, and Push: new (Ptr) T{InValue}
StoreValue(t) ==
    /\ ~ub /\ thr[t].pc = "store"
    /\ \E b \in ChunkAt(Chunks["X"], ChunkHead["X"], heap) :
          LET Ptr == [blk |-> b, off |-> thr[t].Offset]
          IN  /\ mem' = Store(mem, Ptr, thr[t].T, thr[t].v)
              /\ thr' = [thr EXCEPT ![t].pc = "find", ![t].Ptr = Ptr]
    /\ ub' = (ChunkHead["X"] >= Len(Chunks["X"]))
    /\ UNCHANGED <<state, Chunks, TypeMap, ChunkSize, HeadPos, ChunkHead, heap,
                   hist, slack, found, movedFrom>>

\* Push: Search = TypeMap.find(Index)
Find(t) ==
    /\ ~ub /\ thr[t].pc = "find"
    /\ thr' = [thr EXCEPT ![t].pc = "record",
                          ![t].hit = (TTypeIndex(thr[t].T) \in DOMAIN TypeMap["X"])]
    /\ UNCHANGED <<state, Chunks, TypeMap, ChunkSize, HeadPos, ChunkHead, heap,
                   mem, hist, slack, found, movedFrom, ub>>

\* Push: Search->second.push_back(Ptr) when the key was found, otherwise
\* TypeMap.insert({Index, {Ptr}}), which leaves an entry that has appeared
\* in the meantime as it is.
RecordPtr(t) ==
    /\ ~ub /\ thr[t].pc = "record"
    /\ LET Index == TTypeIndex(thr[t].T)
       IN  TypeMap' = [TypeMap EXCEPT !["X"] =
                          IF thr[t].hit \/ Index \notin DOMAIN @
                          THEN Record(@, Index, thr[t].Ptr)
                          ELSE @]
    /\ hist' = [hist EXCEPT !["X"] = Append(@, <<thr[t].T, thr[t].v>>)]
    /\ thr'  = [thr EXCEPT ![t].pc = "done"]
    /\ UNCHANGED <<state, Chunks, ChunkSize, HeadPos, ChunkHead, heap, mem,
                   slack, found, movedFrom, ub>>

NextRace ==
    \/ \E t \in Threads, T \in Types, v \in Values : Begin(t, T, v)
    \/ \E t \in Threads : ReadSize(t)
    \/ \E t \in Threads : PushBase(t)
    \/ \E t \in Threads : ReadHead(t)
    \/ \E t \in Threads : RollOver(t)
    \/ \E t \in Threads : WriteHead(t)
    \/ \E t \in Threads : StoreValue(t)
    \/ \E t \in Threads : Find(t)
    \/ \E t \in Threads : RecordPtr(t)

SpecRace == Init /\ [][NextRace]_vars

TypeOK ==
    /\ \A c \in Containers : state[c] \in {"none", "live", "dead"}
    /\ heap \subseteq BlockIds

\* ------------------------------------------------------ what the claims use
Live(c) == state[c] = "live"

\* The values of type T pushed on c in this period, in push order.
PushedVals(c, T) ==
    LET s == SelectSeq(hist[c], LAMBDA e : e[1] = T)
    IN  [i \in 1..Len(s) |-> s[i][2]]

\* What Data<T>() on c yields after the step.
DataAfter(c, T) == Yield(TypeMap'[c], mem', T)

\* A step that is a Push on c, and the type and the value it pushed.
PushStep(c) ==
    /\ Live(c) /\ state'[c] = "live"
    /\ Len(hist'[c]) = Len(hist[c]) + 1

PushedType(c) == hist'[c][Len(hist'[c])][1]
PushedVal(c)  == hist'[c][Len(hist'[c])][2]

\* A step in which c is move-constructed from o.
MoveStep(c, o) == c # o /\ state[c] = "none" /\ state'[c] = "live"

\* A state in which the last operation on c was Clear (c itself, or the
\* container c was move-constructed from).
JustCleared(c) == Live(c) /\ found[c] # NoClear

\* ------------------------------------------------------------------ claims
\* C1: in every container, Data<T>() yields exactly the values of type T
\* pushed since construction or the last Clear, as many and in push order.
C1_DataYieldsPushedInOrder ==
    \A c \in Containers : Live(c) =>
        \A T \in Types : Data(c, T) = PushedVals(c, T)

\* The same, as long as no read outside the bounds of Chunks has happened.
DataYieldsPushedInOrder_Defined == ~ub => C1_DataYieldsPushedInOrder

\* C2: a Push of a value of type A leaves what Data<B>() yields unchanged,
\* for every type B other than A (their fingerprints differ).
C2_TypeIsolation ==
    [][\A c \in Containers :
          PushStep(c) =>
             \A d \in Containers, B \in Types \ {PushedType(c)} :
                (Live(d) /\ TTypeIndex(B) # TTypeIndex(PushedType(c)))
                   => DataAfter(d, B) = Data(d, B)]_vars

\* The same for the pushes that read Chunks inside its bounds.
TypeIsolation_Defined ==
    [][\A c \in Containers :
          (PushStep(c) /\ ~ub') =>
             \A d \in Containers, B \in Types \ {PushedType(c)} :
                (Live(d) /\ TTypeIndex(B) # TTypeIndex(PushedType(c)))
                   => DataAfter(d, B) = Data(d, B)]_vars

\* C3: after Clear(k), for any k >= 0, Data<T>() has length 0 for every type
\* T, whatever had been pushed before.
C3_ClearEmptiesEveryView ==
    \A c \in Containers : JustCleared(c) =>
        \A T \in Types : Len(Data(c, T)) = 0

\* C3 witness: a Clear has discarded recorded values.
C3_Witness ==
    \E c \in Containers :
        JustCleared(c) /\ found[c].vals /\ \A T \in Types : Len(Data(c, T)) = 0

\* C4: after Clear(k) the pool holds exactly k blocks; the blocks in excess
\* were freed, the missing ones were allocated; Clear(0) leaves no block.
C4_ClearResizesPoolToSlack ==
    [][\A c \in Containers :
          (JustCleared(c))' =>
             /\ Len(Chunks'[c]) = slack'[c]
             /\ Cardinality(Range(Chunks'[c])) = slack'[c]
             /\ Range(Chunks'[c]) \subseteq heap'
             /\ (Live(c) /\ Chunks'[c] # Chunks[c]) =>
                   Cardinality(heap') = Cardinality(heap) - Len(Chunks[c]) + slack'[c]]_vars

\* C4 witness: a Clear(k), k >= 1, found more than k blocks and kept k.
C4_Witness ==
    \E c \in Containers :
        /\ JustCleared(c) /\ slack[c] >= 1
        /\ found[c].pool = "larger"
        /\ Len(Chunks[c]) = slack[c]

\* C5: after Clear(k), k >= 1, a Push acquires no block as long as the value
\* goes into one of the k blocks kept; the push that rolls over past block
\* k-1 acquires one.
C5_NoAcquisitionWithinSlack ==
    [][\A c \in Containers :
          (PushStep(c) /\ slack[c] >= 1 /\ ChunkHead[c] < slack[c]) =>
             IF ChunkHead'[c] < slack[c]
             THEN Chunks'[c] = Chunks[c] /\ heap' = heap
             ELSE /\ Len(Chunks'[c]) = slack[c] + 1
                  /\ Cardinality(heap') = Cardinality(heap) + 1]_vars

\* C5 witness: after Clear(k), k >= 1, the pushes have filled the k blocks and
\* the push rolling over past block k-1 has acquired block k.
C5_Witness ==
    \E c \in Containers :
        /\ Live(c) /\ slack[c] >= 1
        /\ ChunkHead[c] = slack[c]
        /\ Len(Chunks[c]) = slack[c] + 1

\* C6: every value is stored at an offset of its block that is a multiple of
\* the alignment of its type, and the alignment divides the block alignment.
C6_StoredOffsetsAligned ==
    \A c \in Containers : Live(c) =>
        \A T \in Types :
            /\ ChunkAlignment % T.align = 0
            /\ \A i \in 1..Len(View(TypeMap[c], T)) :
                  View(TypeMap[c], T)[i].off % T.align = 0

\* C6 witness: a value of alignment 2 stored at an offset above 0 that had
\* to be rounded up: the value before it in the block ends one byte lower.
C6_Witness ==
    \E c \in Containers, T \in Types :
        /\ Live(c) /\ T.align > 1
        /\ \E i \in 1..Len(View(TypeMap[c], T)) :
              /\ View(TypeMap[c], T)[i].off > 0
              /\ View(TypeMap[c], T)[i].off % T.align = 0
              /\ \E U \in Types : \E j \in 1..Len(View(TypeMap[c], U)) :
                    /\ View(TypeMap[c], U)[j].blk = View(TypeMap[c], T)[i].blk
                    /\ View(TypeMap[c], U)[j].off + U.size < View(TypeMap[c], T)[i].off

\* C7: the value a Push stores reads back through Data<T>() as pushed, and
\* so does every value stored earlier in the period, after any further Push.
C7_RoundTrip ==
    [][\A c \in Containers :
          PushStep(c) =>
             /\ Len(DataAfter(c, PushedType(c))) = Len(Data(c, PushedType(c))) + 1
             /\ DataAfter(c, PushedType(c))[Len(DataAfter(c, PushedType(c)))] = PushedVal(c)
             /\ \A d \in Containers, U \in Types :
                   Live(d) => \A i \in 1..Len(PushedVals(d, U)) :
                                 DataAfter(d, U)[i] = PushedVals(d, U)[i]]_vars

\* The same for the pushes that read Chunks inside its bounds.
RoundTrip_Defined ==
    [][\A c \in Containers :
          (PushStep(c) /\ ~ub') =>
             /\ Len(DataAfter(c, PushedType(c))) = Len(Data(c, PushedType(c))) + 1
             /\ DataAfter(c, PushedType(c))[Len(DataAfter(c, PushedType(c)))] = PushedVal(c)
             /\ \A d \in Containers, U \in Types :
                   Live(d) => \A i \in 1..Len(PushedVals(d, U)) :
                                 DataAfter(d, U)[i] = PushedVals(d, U)[i]]_vars

\* C8: Data<T>() is an empty view for a type T that received no Push since
\* construction or the last Clear, whatever else was pushed.
C8_NeverPushedIsEmpty ==
    \A c \in Containers : Live(c) =>
        \A T \in Types :
            (\A i \in 1..Len(hist[c]) : hist[c][i][1] # T) => Len(View(TypeMap[c], T)) = 0

\* C8 witness: one type has values, the other has none and its view is empty.
C8_Witness ==
    \E c \in Containers : Live(c) /\
        \E T \in Types :
            /\ \A i \in 1..Len(hist[c]) : hist[c][i][1] # T
            /\ \A U \in Types \ {T} : Len(View(TypeMap[c], U)) >= 1
            /\ Len(Data(c, T)) = 0

\* C9: a Push on a moved-from container first acquires a base block, and
\* every value it stores lies in a block of that container's own pool.
C9_MovedFromPushSelfCorrects ==
    \A c \in Containers : (Live(c) /\ movedFrom[c] /\ hist[c] # <<>>) =>
        /\ Len(Chunks[c]) >= 1
        /\ \A T \in Types : \A i \in 1..Len(View(TypeMap[c], T)) :
              View(TypeMap[c], T)[i].blk \in Range(Chunks[c])

\* C10: move-construction hands the whole state over: pool, cursors, chunk
\* size and views are those of the source, the next Push allocates as it
\* would have on the source, and the source is left with no block.
C10_MoveTransfersState ==
    [][\A c \in Containers, o \in Containers :
          MoveStep(c, o) =>
             /\ Chunks'[c] = Chunks[o]
             /\ HeadPos'[c] = HeadPos[o] /\ ChunkHead'[c] = ChunkHead[o]
             /\ ChunkSize'[c] = ChunkSize[o]
             /\ \A T \in Types :
                   /\ View(TypeMap'[c], T) = View(TypeMap[o], T)
                   /\ DataAfter(c, T) = Data(o, T)
                   /\ Allocate(Chunks'[c], HeadPos'[c], ChunkHead'[c], ChunkSize'[c],
                               heap', T.size, T.align)
                        = Allocate(Chunks[o], HeadPos[o], ChunkHead[o], ChunkSize[o],
                                   heap, T.size, T.align)
             /\ Chunks'[o] = <<>>
             /\ heap' = heap]_vars

\* C10 witness: a container move-constructed from one that had rolled over
\* into its second block; the source has no block.
C10_Witness ==
    /\ Live("Y") /\ movedFrom["X"] /\ Chunks["X"] = <<>>
    /\ Len(Chunks["Y"]) = 2 /\ ChunkHead["Y"] = 1 /\ ChunkHead["X"] = 1
    /\ \E T \in Types : Len(Data("Y", T)) = 2 /\ Data("Y", T) = PushedVals("Y", T)

\* The blocks of all pools.
Held == UNION {Range(Chunks[c]) : c \in Containers}

Fresh(c) == Live(c) /\ hist[c] = <<>> /\ slack[c] = -1 /\ ~movedFrom[c]

\* The address the Push of this step recorded: the last of the registry
\* entry of the pushed type.
PushedPtr(c) ==
    LET e == TypeMap'[c][TTypeIndex(PushedType(c))]
    IN  e[Len(e)]

\* The Push of this step on c acquired exactly one block, which is block 0 of
\* the pool, and stored its value at offset 0 of it.
FirstPushEffect(c) ==
    /\ Len(Chunks'[c]) = 1
    /\ heap' = heap \cup {Chunks'[c][1]} /\ Chunks'[c][1] \notin heap
    /\ PushedPtr(c) = [blk |-> Chunks'[c][1], off |-> 0]

\* C12: a newly constructed container holds zero blocks and every Data<T>()
\* is empty; a Push on a container whose pool is empty acquires exactly one
\* block and stores its value at offset 0 of block 0.
C12_FirstPushOnEmptyPool ==
    [][\A c \in Containers :
          /\ Fresh(c) =>
                Chunks[c] = <<>> /\ \A T \in Types : Data(c, T) = <<>>
          /\ (PushStep(c) /\ Chunks[c] = <<>>) => FirstPushEffect(c)]_vars

\* The same for the containers that have not been moved from since their
\* construction or last Clear.
FirstPushOnEmptyPool_NotMovedFrom ==
    [][\A c \in Containers :
          /\ Fresh(c) =>
                Chunks[c] = <<>> /\ \A T \in Types : Data(c, T) = <<>>
          /\ (PushStep(c) /\ Chunks[c] = <<>> /\ ~movedFrom[c])
                => FirstPushEffect(c)]_vars

\* C13: on a container that has not been moved from, after any sequence of
\* Push (of the supported types, whose sizes are at most ChunkSize) and
\* Clear, every range a Push returned lies wholly inside one block of the
\* pool: the active block index is below the pool size once a value has been
\* pushed, every recorded address is in a block of the pool with
\* offset + size <= ChunkSize, and Head never exceeds ChunkSize.
C13_RangeInsideOneBlock ==
    \A c \in Containers : (Live(c) /\ ~movedFrom[c]) =>
        /\ HeadPos[c] <= ChunkSize[c]
        /\ hist[c] # <<>> => ChunkHead[c] < Len(Chunks[c])
        /\ \A T \in Types : \A i \in 1..Len(View(TypeMap[c], T)) :
              LET Ptr == View(TypeMap[c], T)[i]
              IN  /\ Ptr.blk \in Range(Chunks[c])
                  /\ Ptr.off + T.size <= ChunkSize[c]

\* X, never moved from, has rolled over into its second block.
C13_Witness ==
    /\ Live("X") /\ ~movedFrom["X"] /\ state["Y"] = "none"
    /\ Len(hist["X"]) = 2 /\ ChunkHead["X"] = 1 /\ Len(Chunks["X"]) = 2

\* The roll-over rule for the Push of this step on c.  The pool is taken as
\* Allocate has it when it comes to the rule: an empty pool has been given
\* its base block.
RollOverRule(c) ==
    LET T    == PushedType(c)
        o    == Align(HeadPos[c], T.align)
        base == IF Len(Chunks[c]) = 0 THEN 1 ELSE Len(Chunks[c])
    IN  /\ SubSeq(Chunks'[c], 1, Len(Chunks[c])) = Chunks[c]
        /\ IF o + T.size <= ChunkSize[c]
           THEN /\ ChunkHead'[c] = ChunkHead[c]
                /\ Len(Chunks'[c]) = base
                /\ ChunkHead[c] < base
                /\ PushedPtr(c) = [blk |-> Chunks'[c][ChunkHead[c] + 1], off |-> o]
                /\ HeadPos'[c] = o + T.size
           ELSE /\ ChunkHead'[c] = ChunkHead[c] + 1
                /\ Len(Chunks'[c]) = IF ChunkHead[c] + 1 < base THEN base ELSE base + 1
                /\ ChunkHead[c] + 1 < Len(Chunks'[c])
                /\ PushedPtr(c) = [blk |-> Chunks'[c][ChunkHead[c] + 2], off |-> 0]
                /\ HeadPos'[c] = T.size

\* C14: every Push follows the roll-over rule: with o the offset aligned up,
\* if o + size <= ChunkSize the value is placed at offset o of the active
\* block, the active index and the pool size are unchanged and the new offset
\* is o + size; otherwise the active index advances by one, a block is
\* appended only if the pool has no block at that index, the value is placed
\* at offset 0 of that block and the new offset is size.
C14_RollOverRule ==
    [][\A c \in Containers : PushStep(c) => RollOverRule(c)]_vars

\* The same for the pushes that read Chunks inside its bounds.
RollOverRule_Defined ==
    [][\A c \in Containers : (PushStep(c) /\ ~ub') => RollOverRule(c)]_vars

\* The byte ranges [off, off + size) of two values, in blocks b1 and b2, have
\* no byte in common.
Disjoint(P, T, Q, U) ==
    \/ P.blk # Q.blk
    \/ P.off + T.size <= Q.off
    \/ Q.off + U.size <= P.off

\* C15: no two values stored since the last Clear occupy overlapping byte
\* ranges: the ranges (block, [offset, offset + size)) the registries record,
\* across all types, are pairwise disjoint.
C15_RecordedRangesDisjoint ==
    \A c, d \in Containers : (Live(c) /\ Live(d)) =>
        \A T, U \in Types :
            \A i \in 1..Len(View(TypeMap[c], T)), j \in 1..Len(View(TypeMap[d], U)) :
                <<c, T, i>> # <<d, U, j>> =>
                    Disjoint(View(TypeMap[c], T)[i], T, View(TypeMap[d], U)[j], U)

\* The same, as long as no read outside the bounds of Chunks has happened.
RecordedRangesDisjoint_Defined == ~ub => C15_RecordedRangesDisjoint

\* C16: a Push of a value whose size exceeds ChunkSize is not detected: it is
\* carried out like any other push, rolling over to offset 0 of the next
\* block, its address is appended to the registry entry of its type, and it
\* leaves Head = size > ChunkSize, the stored range extending past the end
\* of the block.
C16_OversizedPushUndetected ==
    [][\A c \in Containers :
          (PushStep(c) /\ PushedType(c).size > ChunkSize[c]) =>
             /\ View(TypeMap'[c], PushedType(c))
                   = Append(View(TypeMap[c], PushedType(c)), PushedPtr(c))
             /\ PushedPtr(c).off = 0
             /\ ChunkHead'[c] = ChunkHead[c] + 1
             /\ ChunkHead'[c] < Len(Chunks'[c]) =>
                   PushedPtr(c).blk = Chunks'[c][ChunkHead'[c] + 1]
             /\ HeadPos'[c] = PushedType(c).size
             /\ HeadPos'[c] > ChunkSize[c]
             /\ PushedPtr(c).off + PushedType(c).size > ChunkSize[c]]_vars

\* X has pushed a value larger than its chunks after a value that fits.
C16_Witness ==
    /\ Live("X")
    /\ Len(hist["X"]) = 2 /\ hist["X"][2][1] = TypeBig
    /\ HeadPos["X"] > ChunkSize["X"]
    /\ Len(View(TypeMap["X"], TypeBig)) = 1

\* C17: allocation only moves forward.  With every Push the pair
\* (ChunkHead, Head) strictly increases in lexicographic order, ChunkHead
\* does not decrease, and the pool keeps its blocks at their indices: it only
\* grows by blocks appended at the tail.
C17_AllocationMovesForward ==
    [][\A c \in Containers : PushStep(c) =>
          /\ \/ ChunkHead'[c] > ChunkHead[c]
             \/ ChunkHead'[c] = ChunkHead[c] /\ HeadPos'[c] > HeadPos[c]
          /\ ChunkHead'[c] >= ChunkHead[c]
          /\ Len(Chunks'[c]) >= Len(Chunks[c])
          /\ SubSeq(Chunks'[c], 1, Len(Chunks[c])) = Chunks[c]]_vars

\* X has pushed two values into its first block, the second one after the
\* first.
C17_Witness ==
    /\ Live("X") /\ Len(hist["X"]) = 2
    /\ ChunkHead["X"] = 0 /\ HeadPos["X"] >= 5 /\ Len(Chunks["X"]) = 1

\* The fingerprints of the types pushed on c since its construction or last
\* Clear.
PushedIndices(c) == {TTypeIndex(hist[c][i][1]) : i \in 1..Len(hist[c])}

\* C18: the registry holds an entry for a type if and only if that type has
\* received a Push since construction or the last Clear, and no entry has an
\* empty address sequence; calls of Data<T>(), on absent types too, create
\* no entry.
C18_RegistryEntriesArePushedTypes ==
    \A c \in Containers : Live(c) =>
        /\ DOMAIN TypeMap[c] = PushedIndices(c)
        /\ \A k \in DOMAIN TypeMap[c] : Len(TypeMap[c][k]) >= 1

\* Y holds values of one type only: the other type has no entry, whatever
\* calls of Data<T>() there have been.
C18_Witness ==
    /\ Live("Y") /\ Len(hist["Y"]) = 2
    /\ DOMAIN TypeMap["Y"] = {TTypeIndex(TypeA)}
    /\ Len(TypeMap["Y"][TTypeIndex(TypeA)]) = 2

\* A step that is a Clear on c: c is alive before and after, its last
\* operation is then a Clear, and nothing of the other containers changes.
ClearStep(c) ==
    /\ Live(c) /\ state' = state
    /\ found'[c] # NoClear
    /\ \A d \in Containers \ {c} :
          Chunks'[d] = Chunks[d] /\ hist'[d] = hist[d] /\ found'[d] = found[d]

\* C19: Clear(k) on a pool of n > k blocks keeps exactly the first k blocks,
\* the same blocks in the same order, and frees exactly the blocks at the
\* indices k..n-1; Clear(k) on a pool of n <= k blocks keeps the n blocks at
\* their indices and appends k - n newly allocated ones.
C19_ClearKeepsLeadingBlocks ==
    [][\A c \in Containers : ClearStep(c) =>
          LET n == Len(Chunks[c])
              k == slack'[c]
          IN  IF n > k
              THEN /\ Chunks'[c] = SubSeq(Chunks[c], 1, k)
                   /\ heap' = heap \ {Chunks[c][i] : i \in (k + 1)..n}
              ELSE /\ Len(Chunks'[c]) = k
                   /\ SubSeq(Chunks'[c], 1, n) = Chunks[c]
                   /\ \A i \in (n + 1)..k : Chunks'[c][i] \notin heap
                   /\ heap' = heap \cup {Chunks'[c][i] : i \in (n + 1)..k}
                   /\ Cardinality(heap') = Cardinality(heap) + (k - n)]_vars

\* A Clear(1) on X found more than one block and values, and kept one block,
\* the only block still allocated.
C19_Witness ==
    /\ JustCleared("X") /\ slack["X"] = 1 /\ found["X"] = [vals |-> TRUE, pool |-> "larger"]
    /\ Len(Chunks["X"]) = 1 /\ heap = Range(Chunks["X"])

\* Both threads have completed their Push.
BothDone == \A t \in Threads : thr[t].pc = "done"

\* C20: with no synchronization, two Push calls on the same container whose
\* steps interleave leave it damaged; nothing in the container excludes the
\* interleavings.  Whenever a thread read Head while the other had read it
\* and not yet written it back, the two pushes end with byte ranges that
\* overlap and Head accounts for one of the two values only; whenever both
\* threads found no registry entry for the type they both push, the registry
\* ends with one address for the two values; whenever both found the pool
\* empty, the pool gets two base blocks.
C20_InterleavedPushesOverlap ==
    \A t \in Threads : \A u \in Threads \ {t} :
        /\ (BothDone /\ thr[t].stale) =>
              /\ ~Disjoint(thr[t].Ptr, thr[t].T, thr[u].Ptr, thr[u].T)
              /\ HeadPos["X"] \in {thr[t].T.size, thr[u].T.size}
        /\ (BothDone /\ thr[t].T = thr[u].T /\ ~thr[t].hit /\ ~thr[u].hit) =>
              Len(View(TypeMap["X"], thr[t].T)) = 1
        /\ (BothDone /\ thr[t].empty /\ thr[u].empty) => Len(Chunks["X"]) >= 2

\* Both pushes have completed, both values were given the same address, and
\* the registry holds that address twice.
C20_Witness ==
    /\ BothDone /\ ~ub
    /\ thr[1].T = TypeD /\ thr[2].T = TypeD
    /\ thr[1].Ptr = thr[2].Ptr
    /\ View(TypeMap["X"], TypeD) = <<thr[1].Ptr, thr[2].Ptr>>

====
